---- MODULE Spec2Model ----
(***************************************************************************)
(* Model of src/server.js: an HTTP bridge that forwards JSON-RPC calls to  *)
(* one subprocess over Content-Length framed stdio and correlates the      *)
(* replies with the waiting HTTP callers by message id.                    *)
(*                                                                         *)
(* Bytes are modelled as tokens: a printable ASCII byte is the one         *)
(* character string of that character, and "CR", "LF", "xC3", "xA9" stand  *)
(* for the bytes 0x0D, 0x0A, 0xC3, 0xA9.  JavaScript string characters are *)
(* modelled the same way, with "U+E9" for the two-byte character e-acute   *)
(* and "U+FFFD" for the replacement character.                             *)
(***************************************************************************)
EXTENDS Integers, Sequences, FiniteSets, TLC

(***************************************************************************)
(* Bounds of the model.                                                    *)
(***************************************************************************)
MaxCalls == 2
MaxEmit == 2

(***************************************************************************)
(* Buffers and strings (0-based offsets as in JavaScript).                 *)
(***************************************************************************)
Slice(b, from, to) ==
  IF to <= from THEN << >>
  ELSE SubSeq(b, from + 1, IF to > Len(b) THEN Len(b) ELSE to)

SliceFrom(b, from) == Slice(b, from, Len(b))

StartsWithAt(b, pat, at) ==
  /\ at + Len(pat) <= Len(b)
  /\ \A i \in 1..Len(pat) : b[at + i] = pat[i]

startsWith(b, pat) == StartsWithAt(b, pat, 0)

indexOf(b, pat) ==
  LET hits == {i \in 0..Len(b) : StartsWithAt(b, pat, i)}
  IN IF hits = {} THEN -1 ELSE CHOOSE i \in hits : \A j \in hits : i <= j

DigitChars == <<"0", "1", "2", "3", "4", "5", "6", "7", "8", "9">>

IsDigit(c) == \E d \in 1..10 : DigitChars[d] = c

DigitVal(c) == (CHOOSE d \in 1..10 : DigitChars[d] = c) - 1

RECURSIVE NumToString(_)
NumToString(n) ==
  IF n < 10 THEN <<DigitChars[n + 1]>>
  ELSE Append(NumToString(n \div 10), DigitChars[(n % 10) + 1])

RECURSIVE parseInt(_)
parseInt(ds) ==
  IF ds = << >> THEN 0
  ELSE 10 * parseInt(SubSeq(ds, 1, Len(ds) - 1)) + DigitVal(ds[Len(ds)])

(***************************************************************************)
(* UTF-8: Buffer.from(s, 'utf8') and buf.toString('utf8').                 *)
(***************************************************************************)
RECURSIVE Utf8Encode(_)
Utf8Encode(s) ==
  IF s = << >> THEN << >>
  ELSE (IF s[1] = "U+E9" THEN <<"xC3", "xA9">>
        ELSE IF s[1] = "U+FFFD" THEN <<"xEF", "xBF", "xBD">>
        ELSE <<s[1]>>) \o Utf8Encode(Tail(s))

RECURSIVE Utf8Decode(_)
Utf8Decode(b) ==
  IF b = << >> THEN << >>
  ELSE IF startsWith(b, <<"xC3", "xA9">>)
       THEN <<"U+E9">> \o Utf8Decode(SliceFrom(b, 2))
  ELSE IF startsWith(b, <<"xEF", "xBF", "xBD">>)
       THEN <<"U+FFFD">> \o Utf8Decode(SliceFrom(b, 3))
  ELSE IF b[1] \in {"xC3", "xA9", "xEF", "xBF", "xBD"}
       THEN <<"U+FFFD">> \o Utf8Decode(Tail(b))
  ELSE <<b[1]>> \o Utf8Decode(Tail(b))

(***************************************************************************)
(* JSON values.  Every value is a record with the same four fields so that *)
(* values of different types compare.  An object is a sequence of members  *)
(* [k |-> key, v |-> value] in insertion order.                            *)
(***************************************************************************)
JNull == [t |-> "null", n |-> 0, s |-> << >>, f |-> << >>]
JNum(n) == [t |-> "num", n |-> n, s |-> << >>, f |-> << >>]
JStr(s) == [t |-> "str", n |-> 0, s |-> s, f |-> << >>]
JObj(f) == [t |-> "obj", n |-> 0, s |-> << >>, f |-> f]
Undefined == [t |-> "undefined", n |-> 0, s |-> << >>, f |-> << >>]

Member(k, v) == [k |-> k, v |-> v]

\* obj[key] of JavaScript, for an object value
GetField(obj, key) ==
  LET hits == {i \in 1..Len(obj.f) : obj.f[i].k = key}
  IN IF hits = {} THEN Undefined ELSE obj.f[CHOOSE i \in hits : TRUE].v

\* obj[key] = v of JavaScript: an existing key keeps its position
SetField(f, key, v) ==
  IF \E i \in 1..Len(f) : f[i].k = key
  THEN [i \in 1..Len(f) |-> IF f[i].k = key THEN Member(key, v) ELSE f[i]]
  ELSE Append(f, Member(key, v))

\* String(x) of JavaScript
String(x) ==
  CASE x.t = "num" -> NumToString(x.n)
    [] x.t = "str" -> x.s
    [] x.t = "null" -> <<"n", "u", "l", "l">>
    [] x.t = "undefined" -> <<"u", "n", "d", "e", "f", "i", "n", "e", "d">>
    [] OTHER -> <<"[", "o", "b", "j", "e", "c", "t", " ", "O", "b", "j", "e", "c", "t", "]">>

(***************************************************************************)
(* JSON.stringify                                                          *)
(***************************************************************************)
RECURSIVE QuoteChars(_)
QuoteChars(s) ==
  IF s = << >> THEN << >>
  ELSE (CASE s[1] = "\"" -> <<"\\", "\"">>
          [] s[1] = "\\" -> <<"\\", "\\">>
          [] s[1] = "CR" -> <<"\\", "r">>
          [] s[1] = "LF" -> <<"\\", "n">>
          [] OTHER -> <<s[1]>>) \o QuoteChars(Tail(s))

Quote(s) == <<"\"">> \o QuoteChars(s) \o <<"\"">>

RECURSIVE JSONstringify(_)
RECURSIVE StringifyMembers(_)
StringifyMembers(f) ==
  IF f = << >> THEN << >>
  ELSE Quote(f[1].k) \o <<":">> \o JSONstringify(f[1].v)
       \o (IF Len(f) > 1 THEN <<",">> ELSE << >>)
       \o StringifyMembers(Tail(f))

JSONstringify(v) ==
  CASE v.t = "null" -> <<"n", "u", "l", "l">>
    [] v.t = "num" -> NumToString(v.n)
    [] v.t = "str" -> Quote(v.s)
    [] OTHER -> <<"{">> \o StringifyMembers(v.f) \o <<"}">>

(***************************************************************************)
(* JSON.parse, for the grammar: null, unsigned integers, strings with the  *)
(* escapes \" \\ \r \n, and objects of these.  No white space.  Any other  *)
(* text is a SyntaxError (ok = FALSE).                                     *)
(***************************************************************************)
ParseFail == [ok |-> FALSE, v |-> Undefined, i |-> 0]

ParseOk(v, i) == [ok |-> TRUE, v |-> v, i |-> i]

CharAt(cs, i) == IF i < Len(cs) THEN cs[i + 1] ELSE "EOF"

RECURSIVE ScanString(_, _, _)
ScanString(cs, i, acc) ==
  LET c == CharAt(cs, i)
      e == CharAt(cs, i + 1)
  IN CASE c = "\"" -> ParseOk(JStr(acc), i + 1)
       [] c \in {"EOF", "CR", "LF"} -> ParseFail
       [] c = "\\" ->
            (CASE e = "\"" -> ScanString(cs, i + 2, Append(acc, "\""))
               [] e = "\\" -> ScanString(cs, i + 2, Append(acc, "\\"))
               [] e = "r" -> ScanString(cs, i + 2, Append(acc, "CR"))
               [] e = "n" -> ScanString(cs, i + 2, Append(acc, "LF"))
               [] OTHER -> ParseFail)
       [] OTHER -> ScanString(cs, i + 1, Append(acc, c))

RECURSIVE DigitsEnd(_, _)
DigitsEnd(cs, i) == IF IsDigit(CharAt(cs, i)) THEN DigitsEnd(cs, i + 1) ELSE i

ParseNumber(cs, i) ==
  LET j == DigitsEnd(cs, i)
  IN IF CharAt(cs, i) = "0" /\ j > i + 1 THEN ParseOk(JNum(0), i + 1)
     ELSE ParseOk(JNum(parseInt(Slice(cs, i, j))), j)

RECURSIVE ParseValue(_, _)
RECURSIVE ParseMembers(_, _, _)
ParseMembers(cs, i, f) ==
  IF CharAt(cs, i) # "\"" THEN ParseFail
  ELSE LET key == ScanString(cs, i + 1, << >>)
       IN IF ~key.ok \/ CharAt(cs, key.i) # ":" THEN ParseFail
          ELSE LET val == ParseValue(cs, key.i + 1)
                   g == SetField(f, key.v.s, val.v)
               IN CASE ~val.ok -> ParseFail
                    [] val.ok /\ CharAt(cs, val.i) = "," -> ParseMembers(cs, val.i + 1, g)
                    [] val.ok /\ CharAt(cs, val.i) = "}" -> ParseOk(JObj(g), val.i + 1)
                    [] OTHER -> ParseFail

ParseValue(cs, i) ==
  LET c == CharAt(cs, i)
  IN CASE c = "n" -> IF StartsWithAt(cs, <<"n", "u", "l", "l">>, i)
                     THEN ParseOk(JNull, i + 4) ELSE ParseFail
       [] IsDigit(c) -> ParseNumber(cs, i)
       [] c = "\"" -> ScanString(cs, i + 1, << >>)
       [] c = "{" -> IF CharAt(cs, i + 1) = "}" THEN ParseOk(JObj(<< >>), i + 2)
                     ELSE ParseMembers(cs, i + 1, << >>)
       [] OTHER -> ParseFail

\* JSON.parse(text): the whole text must be one value
JSONparse(cs) ==
  LET r == ParseValue(cs, 0)
  IN IF r.ok /\ r.i = Len(cs) THEN r ELSE ParseFail

(***************************************************************************)
(* Frame codec                                                             *)
(***************************************************************************)
sep == <<"CR", "LF", "CR", "LF">>

ContentLengthName ==
  <<"c", "o", "n", "t", "e", "n", "t", "-", "l", "e", "n", "g", "t", "h", ":">>

\* case folding of the /i flag, for the letters of the header name
ToLower(c) ==
  CASE c = "C" -> "c" [] c = "O" -> "o" [] c = "N" -> "n" [] c = "T" -> "t"
    [] c = "E" -> "e" [] c = "L" -> "l" [] c = "G" -> "g" [] c = "H" -> "h"
    [] OTHER -> c

IsSpace(c) == c \in {" ", "CR", "LF", "TAB"}

RECURSIVE SpacesEnd(_, _)
SpacesEnd(cs, i) == IF IsSpace(CharAt(cs, i)) THEN SpacesEnd(cs, i + 1) ELSE i

\* header.match(/Content-Length:\s*(\d+)/i): the leftmost match, or none
MatchAt(cs, low, p) ==
  /\ StartsWithAt(low, ContentLengthName, p)
  /\ IsDigit(CharAt(cs, SpacesEnd(cs, p + Len(ContentLengthName))))

HeaderMatch(cs) ==
  LET low == [i \in 1..Len(cs) |-> ToLower(cs[i])]
      hits == {p \in 0..Len(cs) : MatchAt(cs, low, p)}
  IN IF hits = {} THEN [ok |-> FALSE, digits |-> << >>]
     ELSE LET p == CHOOSE q \in hits : \A r \in hits : q <= r
              d == SpacesEnd(cs, p + Len(ContentLengthName))
          IN [ok |-> TRUE, digits |-> Slice(cs, d, DigitsEnd(cs, d))]

\* writeMessage with the character count of the JSON text as Content-Length
writeMessage_CharLength(obj) ==
  LET json == Utf8Encode(JSONstringify(obj))
      header == Utf8Encode(<<"C", "o", "n", "t", "e", "n", "t", "-", "L", "e", "n", "g", "t", "h", ":", " ">>
                           \o NumToString(Len(JSONstringify(obj))) \o sep)
  IN <<header, json>>

\* writeMessage writing the body before the header
writeMessage_BodyFirst(obj) ==
  LET json == Utf8Encode(JSONstringify(obj))
      header == Utf8Encode(<<"C", "o", "n", "t", "e", "n", "t", "-", "L", "e", "n", "g", "t", "h", ":", " ">>
                           \o NumToString(Len(json)) \o sep)
  IN <<json, header>>

\* the two buffers writeMessage(obj) hands to mcp.stdin.write, in order
writeMessage(obj) ==
  LET json == Utf8Encode(JSONstringify(obj))
      header == Utf8Encode(<<"C", "o", "n", "t", "e", "n", "t", "-", "L", "e", "n", "g", "t", "h", ":", " ">>
                           \o NumToString(Len(json)) \o sep)
  IN <<header, json>>

\* the bytes of one frame as they appear on a stream
Encode(obj) == writeMessage(obj)[1] \o writeMessage(obj)[2]

(***************************************************************************)
(* State                                                                   *)
(***************************************************************************)
VARIABLES
  readBuffer,  \* line 42: bytes read from the subprocess and not yet consumed
  pending,     \* line 43: idKey -> the call whose {resolve, reject} it holds
  timers,      \* line 138: armed setTimeout callbacks, in the order they fire
  calls,       \* line 119: the accepted POST /rpc calls: [idKey, payload]
  responses,   \* lines 149, 151: responses to accepted calls, in order
  refused,     \* lines 106-133: the request the latest step refused, if any
  stdin,       \* lines 96-97: the buffers written to mcp.stdin, in order
  pipe,        \* line 79: bytes the subprocess wrote, not yet read
  emitted,     \* what the subprocess has written so far, item by item
  log,         \* lines 64-75: outcome of each frame: [pass, kind, msg, call]
  nData,       \* line 79: number of 'data' events handled
  alive        \* line 90: FALSE once process.exit(1) has run

vars == <<readBuffer, pending, timers, calls, responses, refused, stdin, pipe,
          emitted, log, nData, alive>>

K_id == <<"i", "d">>
K_jsonrpc == <<"j", "s", "o", "n", "r", "p", "c">>
V_2_0 == <<"2", ".", "0">>
BearerPrefix == <<"B", "e", "a", "r", "e", "r", " ">>
BRIDGE_TOKEN == <<"s", "k">>
TimeoutMessage == <<"t", "i", "m", "e", "o", "u", "t">>

NoRequest == [authorization |-> << >>, body |-> Undefined, status |-> 0]

Settled(rs, c) == \E i \in 1..Len(rs) : rs[i].call = c

\* the continuation of `await p`: it runs once, on the first settlement
Settle(rs, c, status, body) ==
  IF Settled(rs, c) THEN rs
  ELSE Append(rs, [call |-> c, status |-> status, body |-> body])

\* pending.clear() instead of pending.delete(k)
MapDelete_Clear(m, k) == << >>

MapDelete(m, k) == [x \in (DOMAIN m) \ {k} |-> m[x]]

\* pending.set that registers nothing
MapSet_Noop(m, k, v) == m

MapSet(m, k, v) == [x \in (DOMAIN m) \cup {k} |-> IF x = k THEN v ELSE m[x]]

(***************************************************************************)
(* tryParseMessages, on st = [readBuffer, pending, responses, log, pass]   *)
(***************************************************************************)
LogEntry(st, kind, msg, c) == [pass |-> st.pass, kind |-> kind, msg |-> msg, call |-> c]

\* Dispatch without the pending.delete of line 68
Dispatch_NoDelete(st, parsed) ==
  LET msg == parsed.v
      id == IF msg.t = "obj" THEN GetField(msg, K_id) ELSE Undefined
      key == String(id)
  IN CASE ~parsed.ok \/ msg.t = "null" ->
            \* JSON.parse threw, or msg.id threw on null: the catch block
            [st EXCEPT !.log = Append(@, LogEntry(st, "error", msg, 0))]
       [] parsed.ok /\ msg.t # "null"
          /\ id.t \notin {"null", "undefined"} /\ key \in DOMAIN st.pending ->
            [st EXCEPT !.responses = Settle(@, st.pending[key], 200, msg),
                       !.log = Append(@, LogEntry(st, "resolved", msg, st.pending[key]))]
       [] OTHER ->
            [st EXCEPT !.log = Append(@, LogEntry(st, "notification", msg, 0))]

\* Dispatch without the msg.id != null test of line 66
Dispatch_NoNullTest(st, parsed) ==
  LET msg == parsed.v
      id == IF msg.t = "obj" THEN GetField(msg, K_id) ELSE Undefined
      key == String(id)
  IN CASE ~parsed.ok \/ msg.t = "null" ->
            \* JSON.parse threw, or msg.id threw on null: the catch block
            [st EXCEPT !.log = Append(@, LogEntry(st, "error", msg, 0))]
       [] parsed.ok /\ msg.t # "null"
          /\ key \in DOMAIN st.pending ->
            [st EXCEPT !.pending = MapDelete(@, key),
                       !.responses = Settle(@, st.pending[key], 200, msg),
                       !.log = Append(@, LogEntry(st, "resolved", msg, st.pending[key]))]
       [] OTHER ->
            [st EXCEPT !.log = Append(@, LogEntry(st, "notification", msg, 0))]

\* the try block, lines 64-75
Dispatch(st, parsed) ==
  LET msg == parsed.v
      id == IF msg.t = "obj" THEN GetField(msg, K_id) ELSE Undefined
      key == String(id)
  IN CASE ~parsed.ok \/ msg.t = "null" ->
            \* JSON.parse threw, or msg.id threw on null: the catch block
            [st EXCEPT !.log = Append(@, LogEntry(st, "error", msg, 0))]
       [] parsed.ok /\ msg.t # "null"
          /\ id.t \notin {"null", "undefined"} /\ key \in DOMAIN st.pending ->
            [st EXCEPT !.pending = MapDelete(@, key),
                       !.responses = Settle(@, st.pending[key], 200, msg),
                       !.log = Append(@, LogEntry(st, "resolved", msg, st.pending[key]))]
       [] OTHER ->
            [st EXCEPT !.log = Append(@, LogEntry(st, "notification", msg, 0))]

\* tryParseMessages without the length test of line 59
RECURSIVE tryParseMessages_NoLengthTest(_)
tryParseMessages_NoLengthTest(st) ==
  LET buf == st.readBuffer
      idx == indexOf(buf, sep)
      header == Utf8Decode(Slice(buf, 0, idx))
      match == HeaderMatch(header)
      len == parseInt(match.digits)
      start == idx + Len(sep)
      jsonBuf == Slice(buf, start, start + len)
      parsed == JSONparse(Utf8Decode(jsonBuf))
  IN IF idx = -1 THEN st
     ELSE IF ~match.ok
          THEN tryParseMessages_NoLengthTest([st EXCEPT !.readBuffer = SliceFrom(buf, idx + Len(sep))])
     ELSE tryParseMessages_NoLengthTest(Dispatch([st EXCEPT !.readBuffer = SliceFrom(buf, start + len)],
                                    parsed))

\* tryParseMessages leaving the loop after the first complete frame
RECURSIVE tryParseMessages_OneFrame(_)
tryParseMessages_OneFrame(st) ==
  LET buf == st.readBuffer
      idx == indexOf(buf, sep)
      header == Utf8Decode(Slice(buf, 0, idx))
      match == HeaderMatch(header)
      len == parseInt(match.digits)
      start == idx + Len(sep)
      jsonBuf == Slice(buf, start, start + len)
      parsed == JSONparse(Utf8Decode(jsonBuf))
  IN IF idx = -1 THEN st
     ELSE IF ~match.ok
          THEN tryParseMessages_OneFrame([st EXCEPT !.readBuffer = SliceFrom(buf, idx + Len(sep))])
     ELSE IF Len(buf) < start + len THEN st
     ELSE (Dispatch([st EXCEPT !.readBuffer = SliceFrom(buf, start + len)],
                                    parsed))

\* tryParseMessages leaving the loop at a header block without Content-Length
RECURSIVE tryParseMessages_NoSkip(_)
tryParseMessages_NoSkip(st) ==
  LET buf == st.readBuffer
      idx == indexOf(buf, sep)
      header == Utf8Decode(Slice(buf, 0, idx))
      match == HeaderMatch(header)
      len == parseInt(match.digits)
      start == idx + Len(sep)
      jsonBuf == Slice(buf, start, start + len)
      parsed == JSONparse(Utf8Decode(jsonBuf))
  IN IF idx = -1 THEN st
     ELSE IF ~match.ok
          THEN st
     ELSE IF Len(buf) < start + len THEN st
     ELSE tryParseMessages_NoSkip(Dispatch([st EXCEPT !.readBuffer = SliceFrom(buf, start + len)],
                                    parsed))

\* tryParseMessages leaving the loop when a payload fails to parse
RECURSIVE tryParseMessages_StopOnError(_)
tryParseMessages_StopOnError(st) ==
  LET buf == st.readBuffer
      idx == indexOf(buf, sep)
      header == Utf8Decode(Slice(buf, 0, idx))
      match == HeaderMatch(header)
      len == parseInt(match.digits)
      start == idx + Len(sep)
      jsonBuf == Slice(buf, start, start + len)
      parsed == JSONparse(Utf8Decode(jsonBuf))
  IN IF idx = -1 THEN st
     ELSE IF ~match.ok
          THEN tryParseMessages_StopOnError([st EXCEPT !.readBuffer = SliceFrom(buf, idx + Len(sep))])
     ELSE IF Len(buf) < start + len THEN st
     ELSE LET d == Dispatch([st EXCEPT !.readBuffer = SliceFrom(buf, start + len)], parsed)
          IN IF d.log[Len(d.log)].kind = "error" THEN d
             ELSE tryParseMessages_StopOnError(d)

RECURSIVE tryParseMessages(_)
tryParseMessages(st) ==
  LET buf == st.readBuffer
      idx == indexOf(buf, sep)
      header == Utf8Decode(Slice(buf, 0, idx))
      match == HeaderMatch(header)
      len == parseInt(match.digits)
      start == idx + Len(sep)
      jsonBuf == Slice(buf, start, start + len)
      parsed == JSONparse(Utf8Decode(jsonBuf))
  IN IF idx = -1 THEN st
     ELSE IF ~match.ok
          THEN tryParseMessages([st EXCEPT !.readBuffer = SliceFrom(buf, idx + Len(sep))])
     ELSE IF Len(buf) < start + len THEN st
     ELSE tryParseMessages(Dispatch([st EXCEPT !.readBuffer = SliceFrom(buf, start + len)],
                                    parsed))

(***************************************************************************)
(* mcp.stdout.on('data'): the chunk is the first n bytes of the pipe       *)
(***************************************************************************)
StdoutData(n) ==
  /\ alive
  /\ n \in 1..Len(pipe)
  /\ LET chunk == SubSeq(pipe, 1, n)
         st == tryParseMessages([readBuffer |-> readBuffer \o chunk,
                                 pending |-> pending,
                                 responses |-> responses,
                                 log |-> log,
                                 pass |-> nData + 1])
     IN /\ readBuffer' = st.readBuffer
        /\ pending' = st.pending
        /\ responses' = st.responses
        /\ log' = st.log
  /\ pipe' = SubSeq(pipe, n + 1, Len(pipe))
  /\ nData' = nData + 1
  /\ refused' = NoRequest
  /\ UNCHANGED <<timers, calls, stdin, emitted, alive>>

(***************************************************************************)
(* POST /rpc                                                               *)
(***************************************************************************)
\* auth(req, res, next): 0 stands for next()
auth(authorization) ==
  IF ~startsWith(authorization, BearerPrefix) THEN 401
  ELSE IF SliceFrom(authorization, Len(BearerPrefix)) # BRIDGE_TOKEN THEN 403
  ELSE 0

\* RpcStatus without the pending.has(idKey) test of line 132
RpcStatus_NoDuplicateTest(authorization, payload, pend) ==
  CASE auth(authorization) # 0 -> auth(authorization)
    [] auth(authorization) = 0 /\ payload.t # "obj" -> 400
    [] auth(authorization) = 0 /\ payload.t = "obj"
       /\ GetField(payload, K_jsonrpc) # JStr(V_2_0) -> 400
    [] auth(authorization) = 0 /\ payload.t = "obj"
       /\ GetField(payload, K_jsonrpc) = JStr(V_2_0)
       /\ GetField(payload, K_id).t \in {"null", "undefined"} -> 400
    [] OTHER -> 0

\* RpcStatus without the payload.id == null test of line 127
RpcStatus_NoIdTest(authorization, payload, pend) ==
  CASE auth(authorization) # 0 -> auth(authorization)
    [] auth(authorization) = 0 /\ payload.t # "obj" -> 400
    [] auth(authorization) = 0 /\ payload.t = "obj"
       /\ GetField(payload, K_jsonrpc) # JStr(V_2_0) -> 400
    [] auth(authorization) = 0 /\ payload.t = "obj"
       /\ GetField(payload, K_jsonrpc) = JStr(V_2_0)
       /\ String(GetField(payload, K_id)) \in DOMAIN pend -> 409
    [] OTHER -> 0

\* the status of the immediate answer, 0 when the call is registered
RpcStatus(authorization, payload, pend) ==
  CASE auth(authorization) # 0 -> auth(authorization)
    [] auth(authorization) = 0 /\ payload.t # "obj" -> 400
    [] auth(authorization) = 0 /\ payload.t = "obj"
       /\ GetField(payload, K_jsonrpc) # JStr(V_2_0) -> 400
    [] auth(authorization) = 0 /\ payload.t = "obj"
       /\ GetField(payload, K_jsonrpc) = JStr(V_2_0)
       /\ GetField(payload, K_id).t \in {"null", "undefined"} -> 400
    [] auth(authorization) = 0 /\ payload.t = "obj"
       /\ GetField(payload, K_jsonrpc) = JStr(V_2_0)
       /\ GetField(payload, K_id).t \notin {"null", "undefined"}
       /\ String(GetField(payload, K_id)) \in DOMAIN pend -> 409
    [] OTHER -> 0

PostRpc(authorization, payload) ==
  /\ alive
  /\ LET status == RpcStatus(authorization, payload, pending)
         idKey == String(GetField(payload, K_id))
         c == Len(calls) + 1
     IN IF status # 0
        THEN /\ refused' = [authorization |-> authorization, body |-> payload,
                            status |-> status]
             /\ UNCHANGED <<pending, timers, calls, stdin>>
        ELSE /\ c <= MaxCalls
             /\ refused' = NoRequest
             /\ pending' = MapSet(pending, idKey, c)
             /\ timers' = Append(timers, [call |-> c, idKey |-> idKey])
             /\ calls' = Append(calls, [idKey |-> idKey, payload |-> payload])
             /\ stdin' = stdin \o writeMessage(payload)
  /\ UNCHANGED <<readBuffer, responses, pipe, emitted, log, nData, alive>>

(***************************************************************************)
(* The setTimeout callback of lines 138-143.  All timers have the same     *)
(* delay, so they fire in the order they were armed.                       *)
(***************************************************************************)
\* the timer callback without the pending.delete of line 140
TimerFire_NoDelete ==
  /\ alive
  /\ timers # << >>
  /\ LET t == Head(timers)
     IN IF t.idKey \in DOMAIN pending
        THEN /\ pending' = pending
             /\ responses' = Settle(responses, t.call, 504, JStr(TimeoutMessage))
        ELSE UNCHANGED <<pending, responses>>
  /\ timers' = Tail(timers)
  /\ refused' = NoRequest
  /\ UNCHANGED <<readBuffer, calls, stdin, pipe, emitted, log, nData, alive>>

TimerFire ==
  /\ alive
  /\ timers # << >>
  /\ LET t == Head(timers)
     IN IF t.idKey \in DOMAIN pending
        THEN /\ pending' = MapDelete(pending, t.idKey)
             /\ responses' = Settle(responses, t.call, 504, JStr(TimeoutMessage))
        ELSE UNCHANGED <<pending, responses>>
  /\ timers' = Tail(timers)
  /\ refused' = NoRequest
  /\ UNCHANGED <<readBuffer, calls, stdin, pipe, emitted, log, nData, alive>>

(***************************************************************************)
(* mcp.on('exit'): process.exit(1); nothing runs afterwards                *)
(***************************************************************************)
McpExit ==
  /\ alive
  /\ alive' = FALSE
  /\ refused' = NoRequest
  /\ UNCHANGED <<readBuffer, pending, timers, calls, responses, stdin, pipe,
                 emitted, log, nData>>

(***************************************************************************)
(* The subprocess writes bytes to its standard output.                     *)
(***************************************************************************)
SubprocessWrite(item) ==
  /\ alive
  /\ Len(emitted) < MaxEmit
  /\ pipe' = pipe \o item.bytes
  /\ emitted' = Append(emitted, item)
  /\ refused' = NoRequest
  /\ UNCHANGED <<readBuffer, pending, timers, calls, responses, stdin, log,
                 nData, alive>>

(***************************************************************************)
(* Inputs                                                                  *)
(***************************************************************************)
Request(idv) == JObj(<<Member(K_jsonrpc, JStr(V_2_0)), Member(K_id, idv)>>)

Reply(idv) == JObj(<<Member(K_id, idv), Member(<<"r">>, JStr(<<"U+E9">>))>>)

Notification == JObj(<<Member(<<"m">>, JStr(<<"x">>))>>)

GoodAuth == BearerPrefix \o BRIDGE_TOKEN

Requests ==
  {[authorization |-> GoodAuth, body |-> b] :
      b \in {Request(JNum(7)), Request(JStr(<<"7">>)), Request(JNum(8)),
             Request(JNull), JObj(<< >>)}}
  \cup {[authorization |-> a, body |-> Request(JNum(7))] :
          a \in {<< >>, BearerPrefix \o <<"x">>}}

\* a complete frame carrying the JSON text of v
Frame(v) == [bytes |-> Encode(v), frame |-> TRUE, val |-> v]

Outputs ==
  {Frame(Reply(JNum(7))), Frame(Reply(JStr(<<"8">>))), Frame(Reply(JNull))}

CodecValues ==
  {JNull, JNum(0), JNum(907), JStr(<< >>), JStr(<<"U+E9", "a">>),
   JStr(sep), JStr(<<"\"", "\\">>), JObj(<< >>),
   Reply(JNum(7)), Reply(JStr(<<"8">>)), Reply(JNull), Notification,
   JObj(<<Member(sep, JNum(10))>>)}

(***************************************************************************)
(* The bridge                                                              *)
(***************************************************************************)
Init ==
  /\ readBuffer = << >>
  /\ pending = << >>
  /\ timers = << >>
  /\ calls = << >>
  /\ responses = << >>
  /\ refused = NoRequest
  /\ stdin = << >>
  /\ pipe = << >>
  /\ emitted = << >>
  /\ log = << >>
  /\ nData = 0
  /\ alive = TRUE

Next ==
  \/ \E r \in Requests : PostRpc(r.authorization, r.body)
  \/ \E item \in Outputs : SubprocessWrite(item)
  \/ StdoutData(Len(pipe))
  \/ TimerFire
  \/ McpExit

Spec == Init /\ [][Next]_vars

(***************************************************************************)
(* The codec alone: the subprocess has written one frame, and its bytes    *)
(* arrive in chunks of any sizes.                                          *)
(***************************************************************************)
InitCodec ==
  /\ readBuffer = << >>
  /\ pending = << >>
  /\ timers = << >>
  /\ calls = << >>
  /\ responses = << >>
  /\ refused = NoRequest
  /\ stdin = << >>
  /\ \E v \in CodecValues : pipe = Encode(v) /\ emitted = <<Frame(v)>>
  /\ log = << >>
  /\ nData = 0
  /\ alive = TRUE

NextCodec == \E n \in 1..Len(pipe) : StdoutData(n)

SpecCodec == InitCodec /\ [][NextCodec]_vars

(***************************************************************************)
(* Vocabulary of the properties                                            *)
(***************************************************************************)
\* the step handled a timer callback
TimerStep == timers # << >> /\ timers' = Tail(timers)

\* the step handled a 'data' event
DataStep == nData' = nData + 1

\* the step registered a new call
RegisterStep == Len(calls') = Len(calls) + 1

\* the step refused a POST /rpc
RefuseStep == refused' # NoRequest

\* a request that passes auth and the structural validation of lines 121-129
WellFormed(req) ==
  /\ auth(req.authorization) = 0
  /\ req.body.t = "obj"
  /\ GetField(req.body, K_jsonrpc) = JStr(V_2_0)
  /\ GetField(req.body, K_id).t \notin {"null", "undefined"}

KeyOf(msg) == String(GetField(msg, K_id))

\* the step received a well-formed POST /rpc whose string-normalized id is k
PostStepWithKey(k) ==
  \/ RegisterStep /\ calls'[Len(calls')].idKey = k
  \/ RefuseStep /\ WellFormed(refused') /\ KeyOf(refused'.body) = k

StatusOf(rs, c) ==
  IF Settled(rs, c) THEN rs[CHOOSE i \in 1..Len(rs) : rs[i].call = c].status ELSE 0

\* C1: a well-formed POST /rpc whose string-normalized id is k, arriving
\* while an entry for k is pending, is answered 409 and changes neither the
\* entry (the earlier call keeps it), nor the timers, nor the bytes written
\* to the subprocess input, nor the calls and responses.
C1_DuplicateIsRefused ==
  [][\A k \in DOMAIN pending :
        PostStepWithKey(k) =>
          /\ refused'.status = 409
          /\ pending' = pending
          /\ timers' = timers
          /\ stdin' = stdin
          /\ calls' = calls
          /\ responses' = responses]_vars

C1_Witness ==
  /\ refused.status = 409
  /\ KeyOf(refused.body) \in DOMAIN pending
  /\ \E c \in 1..Len(calls) :
        /\ pending[KeyOf(refused.body)] = c
        /\ calls[c].payload # refused.body

\* C2: when the timer of a call fires, only an entry created by that call is
\* removed and only that call is completed: every entry held by another
\* call survives the step, and no other call gets a response in it.
C2_TimeoutIsLocal ==
  [][TimerStep =>
       /\ \A k \in DOMAIN pending :
             pending[k] # Head(timers).call =>
               k \in DOMAIN pending' /\ pending'[k] = pending[k]
       /\ \A c \in 1..Len(calls) :
             c # Head(timers).call => StatusOf(responses', c) = StatusOf(responses, c)]_vars

\* the 200 responses and the resolved frames, as (call, message) pairs
Is200(r) == r.status = 200

IsResolved(e) == e.kind = "resolved"

Delivered(rs) ==
  LET ok == SelectSeq(rs, Is200)
  IN [i \in 1..Len(ok) |-> <<ok[i].call, ok[i].body>>]

Resolutions(lg) ==
  LET ok == SelectSeq(lg, IsResolved)
  IN [i \in 1..Len(ok) |-> <<ok[i].call, ok[i].msg>>]

\* C3: every 200 response carries, unchanged, a message the subprocess wrote
\* and the decoder decoded, whose string-normalized id is the call's key;
\* the 200 responses are, one for one and in order, the frames that resolved
\* a call, and no call has two responses.
C3_ReplyIsVerbatim ==
  /\ \A i \in 1..Len(responses) :
        responses[i].status = 200 =>
          /\ \E e \in 1..Len(emitted) : emitted[e].frame /\ emitted[e].val = responses[i].body
          /\ KeyOf(responses[i].body) = calls[responses[i].call].idKey
          /\ KeyOf(responses[i].body) = KeyOf(calls[responses[i].call].payload)
  /\ Delivered(responses) = Resolutions(log)
  /\ Len(log) <= Len(emitted)
  /\ \A i, j \in 1..Len(responses) :
        responses[i].call = responses[j].call => i = j

\* two calls under one key, each answered 200 with its own reply
C3_Witness ==
  /\ Len(responses) = 2
  /\ responses[1].status = 200 /\ responses[2].status = 200
  /\ calls[1].idKey = calls[2].idKey
  /\ calls[1].payload # calls[2].payload
  /\ responses[1].call = 1 /\ responses[2].call = 2

\* the frames a 'data' step decoded: the entries it appended to the log
NewEntries == {j \in 1..Len(log') : j > Len(log)}

\* a decoded message that carries the key k
CarriesKey(msg, k) ==
  /\ msg.t = "obj"
  /\ GetField(msg, K_id).t \notin {"null", "undefined"}
  /\ KeyOf(msg) = k

\* C4: a call that has no reply when its timer fires is completed with 504
\* and its key leaves the pending table; a reply carrying the key of a
\* timed-out call, arriving while that key is not pending, is logged as a
\* notification, leaves the key absent and the call's 504 in place.
C4_TimeoutThenUnsolicited ==
  [][/\ (TimerStep /\ ~Settled(responses, Head(timers).call)) =>
          /\ StatusOf(responses', Head(timers).call) = 504
          /\ Head(timers).idKey \notin DOMAIN pending'
     /\ \A c \in 1..Len(calls) :
          (DataStep /\ StatusOf(responses, c) = 504
                    /\ calls[c].idKey \notin DOMAIN pending) =>
            /\ StatusOf(responses', c) = 504
            /\ calls[c].idKey \notin DOMAIN pending'
            /\ \A j \in NewEntries :
                  CarriesKey(log'[j].msg, calls[c].idKey) => log'[j].kind = "notification"]_vars

\* C5: (a) when the call holding k gets its outcome, k leaves the table;
\* (b) a well-formed POST with a key that is not pending is registered, its
\* timer armed and its frame written; (c) a key enters the table, or changes
\* holder, only in such a registration step.
C5_KeyIsReusable ==
  [][/\ \A k \in DOMAIN pending :
          (StatusOf(responses, pending[k]) = 0 /\ StatusOf(responses', pending[k]) # 0)
             => k \notin DOMAIN pending'
     /\ \A r \in Requests :
          (WellFormed(r) /\ KeyOf(r.body) \notin DOMAIN pending
             /\ PostStepWithKey(KeyOf(r.body))) =>
            /\ RegisterStep
            /\ refused' = NoRequest
            /\ pending' = MapSet(pending, KeyOf(r.body), Len(calls'))
            /\ timers' = Append(timers, [call |-> Len(calls'), idKey |-> KeyOf(r.body)])
            /\ stdin' = stdin \o writeMessage(calls'[Len(calls')].payload)
     /\ \A k \in DOMAIN pending' :
          (k \notin DOMAIN pending \/ pending'[k] # pending[k]) =>
            /\ RegisterStep
            /\ calls'[Len(calls')].idKey = k
            /\ pending'[k] = Len(calls')]_vars

\* a key registered again after its first call expired
C5_Witness ==
  /\ Len(calls) = 2
  /\ calls[1].idKey = calls[2].idKey
  /\ StatusOf(responses, 1) = 504
  /\ calls[2].idKey \in DOMAIN pending
  /\ pending[calls[2].idKey] = 2
  /\ Len(stdin) = 4

\* C6: once the subprocess has exited, every call that was waiting has
\* received a failure response and no entry is left pending.
C6_ExitRejectsPending ==
  ~alive =>
    /\ \A c \in 1..Len(calls) : StatusOf(responses, c) # 0
    /\ DOMAIN pending = {}

\* C7: in a 'data' step, a pending key that no decoded message carries keeps
\* its entry and its caller keeps waiting; a pending key that a decoded
\* message carries is resolved: its entry is removed and its caller gets 200.
C7_OutOfOrder ==
  [][DataStep =>
       \A k \in DOMAIN pending :
          IF \E j \in NewEntries : CarriesKey(log'[j].msg, k)
          THEN /\ k \notin DOMAIN pending'
               /\ StatusOf(responses', pending[k]) = 200
          ELSE /\ k \in DOMAIN pending'
               /\ pending'[k] = pending[k]
               /\ StatusOf(responses', pending[k]) = 0]_vars

\* "7" then "8" registered, the reply for "8" came first: call 2 has its
\* 200 and call 1 still holds its entry
C7_Witness ==
  /\ Len(calls) = 2
  /\ calls[1].idKey = <<"7">> /\ calls[2].idKey = <<"8">>
  /\ Len(responses) = 1
  /\ responses[1].call = 2 /\ responses[1].status = 200
  /\ DOMAIN pending = {<<"7">>}
  /\ pending[<<"7">>] = 1

\* C8: once all the bytes of the frame that writeMessage produces for V
\* have been read, exactly one message has been decoded, it is V, and the
\* read buffer is empty.
C8_RoundTrip ==
  pipe = << >> =>
    /\ readBuffer = << >>
    /\ Len(log) = 1
    /\ log[1].msg = emitted[1].val

\* the whole frame of a value with a two-byte character, read in one chunk
C8_Witness ==
  /\ pipe = << >>
  /\ nData = 1
  /\ Len(log) = 1
  /\ log[1].msg = JStr(<<"U+E9", "a">>)
  /\ emitted[1].bytes = writeMessage(JStr(<<"U+E9", "a">>))[1] \o writeMessage(JStr(<<"U+E9", "a">>))[2]

\* C9: a 'data' step that does not bring the last byte of the frame decodes
\* nothing and leaves in the read buffer exactly the bytes received so far;
\* the step that brings the last byte decodes V, once, in that pass.
C9_PartialDelivery ==
  [][DataStep =>
       IF pipe' # << >>
       THEN /\ log' = << >>
            /\ readBuffer' \o pipe' = emitted[1].bytes
            /\ Len(readBuffer') > Len(readBuffer)
       ELSE /\ log = << >>
            /\ Len(log') = 1
            /\ log'[1].msg = emitted[1].val
            /\ log'[1].pass = nData'
            /\ readBuffer' = << >>]_vars

\* a frame delivered in three chunks and decoded in the third pass
C9_Witness ==
  /\ pipe = << >>
  /\ nData = 3
  /\ Len(log) = 1
  /\ log[1].pass = 3
  /\ log[1].msg = Reply(JNum(7))

\* the items the subprocess has written and the bridge has not read yet
RECURSIVE ConcatBytes(_)
ConcatBytes(items) ==
  IF items = << >> THEN << >> ELSE Head(items).bytes \o ConcatBytes(Tail(items))

LastItems(m) == SubSeq(emitted, Len(emitted) - m + 1, Len(emitted))

Unread == LastItems(CHOOSE m \in 0..Len(emitted) : ConcatBytes(LastItems(m)) = pipe)

ResponseOf(e) == [call |-> e.call, status |-> 200, body |-> e.msg]

\* C10: a chunk that is the concatenation of complete frames, read into an
\* empty buffer, is decoded entirely in that pass: the log grows by one
\* entry per frame, in stream order, and the calls the frames resolve get
\* their responses in that order.
C10_FramesInOneChunk ==
  [][(DataStep /\ readBuffer = << >>) =>
       LET new == SubSeq(log', Len(log) + 1, Len(log'))
           res == SelectSeq(new, IsResolved)
       IN /\ Len(new) = Len(Unread)
          /\ \A j \in 1..Len(new) :
                new[j].msg = Unread[j].val /\ new[j].pass = nData'
          /\ responses' = responses \o [j \in 1..Len(res) |-> ResponseOf(res[j])]
          /\ readBuffer' = << >>]_vars

\* "7" then "8" registered; the replies for "8" and "7" came in one chunk,
\* in that order, and were answered in that order
C10_Witness ==
  /\ Len(calls) = 2
  /\ calls[1].idKey = <<"7">> /\ calls[2].idKey = <<"8">>
  /\ nData = 1
  /\ Len(log) = 2
  /\ log[1].pass = 1 /\ log[2].pass = 1
  /\ log[1].call = 2 /\ log[2].call = 1
  /\ Len(responses) = 2
  /\ responses[1].call = 2 /\ responses[2].call = 1

(***************************************************************************)
(* The bridge reading a faulty stream: the subprocess also writes header   *)
(* blocks without Content-Length, frames whose payload is not JSON, and a  *)
(* header that announces more bytes than any message of the model has.     *)
(***************************************************************************)
\* a header block without Content-Length, with its separator
GarbageBlock ==
  [bytes |-> <<"X", ":", " ", "1">> \o sep, frame |-> FALSE, val |-> Undefined]

\* a complete frame whose payload is not JSON
BadJsonFrame ==
  [bytes |-> Utf8Encode(<<"C", "o", "n", "t", "e", "n", "t", "-", "L", "e", "n", "g", "t", "h", ":", " ", "1">>
                        \o sep \o <<"{">>),
   frame |-> FALSE, val |-> Undefined]

\* a header announcing 99 bytes, which do not follow
OversizedHeader ==
  [bytes |-> Utf8Encode(<<"C", "o", "n", "t", "e", "n", "t", "-", "L", "e", "n", "g", "t", "h", ":", " ", "9", "9">>
                        \o sep),
   frame |-> FALSE, val |-> Undefined]

StreamRequests ==
  {[authorization |-> GoodAuth, body |-> b] : b \in {Request(JNum(7)), Request(JNum(8))}}

StreamOutputs ==
  {GarbageBlock, BadJsonFrame, OversizedHeader,
   Frame(Reply(JNum(7))), Frame(Reply(JStr(<<"8">>)))}

NextStream ==
  \/ \E r \in StreamRequests : PostRpc(r.authorization, r.body)
  \/ \E item \in StreamOutputs : SubprocessWrite(item)
  \/ StdoutData(Len(pipe))

SpecStream == Init /\ [][NextStream]_vars

IsFrame(item) == item.frame

IsGarbage(item) == item = GarbageBlock

IsBadJson(item) == item = BadJsonFrame

\* the entries a 'data' step appended to the log, and their responses
NewLog == SubSeq(log', Len(log) + 1, Len(log'))

NewResponses ==
  LET res == SelectSeq(NewLog, IsResolved)
  IN [j \in 1..Len(res) |-> ResponseOf(res[j])]

\* C11: a chunk made of header blocks without Content-Length and of valid
\* frames, with at least one such block, read into an empty buffer: only
\* the valid frames are decoded, in order; the blocks are dropped with their
\* separators (the buffer ends empty), and a pending key that no valid frame
\* carries keeps its entry.
C11_MalformedHeaderRecovery ==
  [][(/\ DataStep
      /\ readBuffer = << >>
      /\ \E j \in 1..Len(Unread) : IsGarbage(Unread[j])
      /\ \A j \in 1..Len(Unread) : IsGarbage(Unread[j]) \/ IsFrame(Unread[j])) =>
       LET frames == SelectSeq(Unread, IsFrame)
       IN /\ Len(NewLog) = Len(frames)
          /\ \A j \in 1..Len(frames) :
                NewLog[j].msg = frames[j].val /\ NewLog[j].kind # "error"
          /\ readBuffer' = << >>
          /\ responses' = responses \o NewResponses
          /\ \A k \in DOMAIN pending :
                (\A j \in 1..Len(frames) : ~CarriesKey(frames[j].val, k)) =>
                  k \in DOMAIN pending' /\ pending'[k] = pending[k]]_vars

\* a garbage block and the reply to call 1 arrived in one chunk: the reply
\* resolved the call
C11_Witness ==
  /\ emitted = <<GarbageBlock, Frame(Reply(JNum(7)))>>
  /\ nData = 1
  /\ pipe = << >>
  /\ readBuffer = << >>
  /\ Len(log) = 1
  /\ log[1].kind = "resolved"
  /\ log[1].msg = Reply(JNum(7))
  /\ StatusOf(responses, 1) = 200

\* C12: a chunk made of frames whose payload is not JSON and of valid
\* frames, with at least one of the former, read into an empty buffer: every
\* frame is consumed (the buffer ends empty) and gives one log entry, in
\* order; a non-JSON payload is reported as an error and completes no call;
\* the valid frames, also those after it, are decoded and dispatched in the
\* same pass; a pending key that no valid frame carries keeps its entry.
C12_BadJsonIsContained ==
  [][(/\ DataStep
      /\ readBuffer = << >>
      /\ \E j \in 1..Len(Unread) : IsBadJson(Unread[j])
      /\ \A j \in 1..Len(Unread) : IsBadJson(Unread[j]) \/ IsFrame(Unread[j])) =>
       /\ Len(NewLog) = Len(Unread)
       /\ \A j \in 1..Len(Unread) :
             /\ NewLog[j].pass = nData'
             /\ IF IsBadJson(Unread[j])
                THEN NewLog[j].kind = "error" /\ NewLog[j].call = 0
                ELSE NewLog[j].kind # "error" /\ NewLog[j].msg = Unread[j].val
       /\ readBuffer' = << >>
       /\ responses' = responses \o NewResponses
       /\ \A k \in DOMAIN pending :
             IF \E j \in 1..Len(Unread) : IsFrame(Unread[j]) /\ CarriesKey(Unread[j].val, k)
             THEN k \notin DOMAIN pending' /\ StatusOf(responses', pending[k]) = 200
             ELSE k \in DOMAIN pending' /\ pending'[k] = pending[k]]_vars

\* a non-JSON frame and then the reply to call 1 arrived in one chunk: the
\* first was reported, the second resolved the call
C12_Witness ==
  /\ emitted = <<BadJsonFrame, Frame(Reply(JNum(7)))>>
  /\ nData = 1
  /\ readBuffer = << >>
  /\ Len(log) = 2
  /\ log[1].kind = "error"
  /\ log[2].kind = "resolved" /\ log[2].call = 1
  /\ StatusOf(responses, 1) = 200

\* the maximum message size a hardened bridge would be configured with
MaxMessageSize == 64

\* C14: a header whose Content-Length exceeds the maximum message size is
\* not buffered: the read buffer never exceeds the size of a header plus the
\* maximum message size, such a header is not kept at the head of the
\* buffer, and once everything written was read every valid frame has been
\* decoded.
C14_OversizedLengthIsRejected ==
  /\ Len(readBuffer) <= Len(OversizedHeader.bytes) + MaxMessageSize
  /\ ~startsWith(readBuffer, OversizedHeader.bytes)
  /\ pipe = << >> =>
       \A e \in 1..Len(emitted) :
          emitted[e].frame => \E j \in 1..Len(log) : log[j].msg = emitted[e].val

\* what a reader of the subprocess input decodes from the given buffers
RECURSIVE Flatten(_)
Flatten(bufs) == IF bufs = << >> THEN << >> ELSE Head(bufs) \o Flatten(Tail(bufs))

DecodedFrom(bufs) ==
  tryParseMessages([readBuffer |-> Flatten(bufs), pending |-> << >>,
                    responses |-> << >>, log |-> << >>, pass |-> 0])

\* C13: the subprocess input only grows, and only when a call is accepted:
\* the step appends, after everything written before, two buffers that
\* together decode to exactly the payload of that call, with no byte left
\* over; so the stream is the sequence of the whole frames of the calls, in
\* the order of the calls.
C13_WholeFramesInOrder ==
  [][stdin' # stdin =>
       /\ RegisterStep
       /\ Len(stdin) = 2 * Len(calls)
       /\ Len(stdin') = Len(stdin) + 2
       /\ SubSeq(stdin', 1, Len(stdin)) = stdin
       /\ DecodedFrom(SubSeq(stdin', Len(stdin) + 1, Len(stdin) + 2))
            = [readBuffer |-> << >>, pending |-> << >>, responses |-> << >>,
               log |-> <<[pass |-> 0, kind |-> "notification",
                          msg |-> calls'[Len(calls')].payload, call |-> 0]>>,
               pass |-> 0]]_vars

\* two calls were issued, the second while the first was waiting
C13_Witness ==
  /\ Len(calls) = 2
  /\ calls[1].payload # calls[2].payload
  /\ Len(stdin) = 4
  /\ DOMAIN pending = {calls[1].idKey, calls[2].idKey}
  /\ responses = << >>

(***************************************************************************)
(* The bridge with identifiers of both types: calls with the ids 7, "7",   *)
(* "null" and "undefined", replies with the ids 7, "7" and null, and a     *)
(* message without id.                                                     *)
(***************************************************************************)
IdRequests ==
  {[authorization |-> GoodAuth, body |-> Request(idv)] :
      idv \in {JNum(7), JStr(<<"7">>), JStr(<<"n", "u", "l", "l">>),
               JStr(<<"u", "n", "d", "e", "f", "i", "n", "e", "d">>)}}

IdOutputs ==
  {Frame(Reply(JNum(7))), Frame(Reply(JStr(<<"7">>))), Frame(Reply(JNull)),
   Frame(Notification)}

NextIds ==
  \/ \E r \in IdRequests : PostRpc(r.authorization, r.body)
  \/ \E item \in IdOutputs : SubprocessWrite(item)
  \/ StdoutData(Len(pipe))

SpecIds == Init /\ [][NextIds]_vars

\* the string form of an id that is a number or a string
IdText(id) == IF id.t = "num" THEN NumToString(id.n) ELSE id.s

HasId(msg) == msg.t = "obj" /\ GetField(msg, K_id).t \in {"num", "str"}

\* the message carries an id whose string form is that of the id of call c
Answers(msg, c) ==
  HasId(msg) /\ IdText(GetField(msg, K_id)) = IdText(GetField(calls[c].payload, K_id))

\* C15: ids are compared by their string form, whatever their types.  In a
\* 'data' step a pending call is resolved exactly if a decoded message
\* carries a non-null id with the string form of the call's id, and a
\* message whose id is null or absent is logged as a notification and
\* resolves nothing; a POST is refused with 409 exactly if a pending call
\* has an id of the same string form, and is never registered then.
C15_IdsCompareAsStrings ==
  [][/\ DataStep =>
          /\ \A j \in NewEntries :
                ~HasId(log'[j].msg) => log'[j].kind = "notification" /\ log'[j].call = 0
          /\ \A k \in DOMAIN pending :
                IF \E j \in NewEntries : Answers(log'[j].msg, pending[k])
                THEN k \notin DOMAIN pending' /\ StatusOf(responses', pending[k]) = 200
                ELSE /\ k \in DOMAIN pending' /\ pending'[k] = pending[k]
                     /\ StatusOf(responses', pending[k]) = 0
     /\ RegisterStep =>
          \A k \in DOMAIN pending :
             IdText(GetField(calls'[Len(calls')].payload, K_id))
               # IdText(GetField(calls[pending[k]].payload, K_id))
     /\ RefuseStep =>
          (refused'.status = 409 <=>
             \E k \in DOMAIN pending :
                IdText(GetField(refused'.body, K_id))
                  = IdText(GetField(calls[pending[k]].payload, K_id)))]_vars

\* the call registered with the string "7" got the reply with the number 7,
\* while a call with the id "null" stays pending after a reply with id null
C15_Witness ==
  /\ Len(calls) = 2
  /\ GetField(calls[1].payload, K_id) = JStr(<<"7">>)
  /\ GetField(calls[2].payload, K_id) = JStr(<<"n", "u", "l", "l">>)
  /\ StatusOf(responses, 1) = 200
  /\ responses[1].body = Reply(JNum(7))
  /\ StatusOf(responses, 2) = 0
  /\ \E j \in 1..Len(log) : log[j].msg = Reply(JNull) /\ log[j].kind = "notification"
  /\ DOMAIN pending = {<<"n", "u", "l", "l">>}

\* the body is an object with jsonrpc "2.0" and a non-null id
ValidBody(b) ==
  /\ b.t = "obj"
  /\ GetField(b, K_jsonrpc) = JStr(V_2_0)
  /\ GetField(b, K_id).t \notin {"null", "undefined"}

\* C16: a POST /rpc without a Bearer authorization header is answered 401,
\* one with a wrong token 403, one with the right token and a body that is
\* not an object with jsonrpc "2.0" and a non-null id 400; such a request has
\* no other effect: the pending table, the timers, the subprocess input, the
\* calls and their responses, the read buffer and the log are unchanged; and
\* only a body that is valid is ever registered.
C16_RefusalHasNoEffect ==
  [][/\ RefuseStep =>
          /\ ~startsWith(refused'.authorization, BearerPrefix) => refused'.status = 401
          /\ (startsWith(refused'.authorization, BearerPrefix)
                /\ refused'.authorization # BearerPrefix \o BRIDGE_TOKEN) => refused'.status = 403
          /\ (refused'.authorization = BearerPrefix \o BRIDGE_TOKEN
                /\ ~ValidBody(refused'.body)) => refused'.status = 400
          /\ UNCHANGED <<pending, timers, stdin, calls, responses, readBuffer, pipe, log>>
     /\ RegisterStep => ValidBody(calls'[Len(calls')].payload)]_vars

\* a request with a null id was refused with 400 while a call was waiting
C16_Witness ==
  /\ refused.status = 400
  /\ refused.body = Request(JNull)
  /\ Len(calls) = 1
  /\ DOMAIN pending = {calls[1].idKey}
  /\ Len(timers) = 1
  /\ Len(stdin) = 2

\* C17: the correlation entry of an accepted call is registered before its
\* frame is written: every step that writes to the subprocess input is the
\* step of one accepted call, and in the state in which the first bytes of
\* the frame are in the input the call's key is in the pending table and
\* maps to that call; so every reply decoded from then on finds the entry,
\* unless a step of the bridge removed it.
C17_RegisteredBeforeWritten ==
  [][stdin' # stdin =>
       /\ RegisterStep
       /\ Len(stdin') = 2 * Len(calls')
       /\ KeyOf(calls'[Len(calls')].payload) \notin DOMAIN pending
       /\ KeyOf(calls'[Len(calls')].payload) \in DOMAIN pending'
       /\ pending'[KeyOf(calls'[Len(calls')].payload)] = Len(calls')
       /\ \A k \in DOMAIN pending : k \in DOMAIN pending' /\ pending'[k] = pending[k]]_vars

\* the frame of the second call is written, both calls are registered under
\* their own keys, and none is answered
C17_Witness ==
  /\ Len(calls) = 2
  /\ Len(stdin) = 4
  /\ DOMAIN pending = {KeyOf(calls[1].payload), KeyOf(calls[2].payload)}
  /\ pending[KeyOf(calls[1].payload)] = 1
  /\ pending[KeyOf(calls[2].payload)] = 2
  /\ pipe # << >>
  /\ responses = << >>

\* the calls whose deadline timer is still armed
ArmedCalls == {timers[i].call : i \in 1..Len(timers)}

\* the calls whose entry is still in the pending table
PendingCalls == {pending[k] : k \in DOMAIN pending}

\* C18: a call's deadline timer is cancelled when the call is resolved: in
\* every reachable state the armed timers are exactly those of the calls
\* whose entries are still pending.
C18_TimerCancelledOnResolution == ArmedCalls = PendingCalls

(***************************************************************************)
(* The server while the subprocess stays alive and timers fire: callers    *)
(* post calls with ids 7 and 8, the subprocess answers 7, and every armed  *)
(* setTimeout callback (line 138) eventually runs.                         *)
(***************************************************************************)
LiveRequests == {[authorization |-> GoodAuth, body |-> b] :
                   b \in {Request(JNum(7)), Request(JNum(8))}}

LiveOutputs == {Frame(Reply(JNum(7)))}

NextLive ==
  \/ \E req \in LiveRequests : PostRpc(req.authorization, req.body)
  \/ \E item \in LiveOutputs : SubprocessWrite(item)
  \/ StdoutData(Len(pipe))
  \/ TimerFire

SpecLive == Init /\ [][NextLive]_vars /\ WF_vars(TimerFire)

\* C19: while the subprocess is alive and timers fire, every accepted call
\* eventually receives its HTTP response (200 or 504), also when its
\* identifier was used by an earlier, completed call.
C19_EveryCallIsAnswered ==
  \A c \in 1..MaxCalls : (Len(calls) >= c) ~> Settled(responses, c)

(***************************************************************************)
(* The server with a subprocess that answers the request frames it reads   *)
(* from its input (lines 93-98): the answer to the c-th frame echoes the   *)
(* id of that frame and carries c as its result, so that answers to        *)
(* different frames differ even when the ids are equal.                    *)
(***************************************************************************)
\* the request the subprocess decodes from the c-th frame of its input
FrameRead(c) == JSONparse(Utf8Decode(stdin[2 * c])).v

AnswerTo(c) ==
  JObj(<<Member(K_id, GetField(FrameRead(c), K_id)), Member(<<"r">>, JNum(c))>>)

\* the subprocess answers the c-th request frame, once
SubprocessReply(c) ==
  /\ c \in 1..Len(calls)
  /\ \A e \in 1..Len(emitted) : emitted[e].val # AnswerTo(c)
  /\ SubprocessWrite(Frame(AnswerTo(c)))

ReplyRequests == {[authorization |-> GoodAuth, body |-> b] :
                    b \in {Request(JNum(7)), Request(JNum(8))}}

NextReplies ==
  \/ \E req \in ReplyRequests : PostRpc(req.authorization, req.body)
  \/ \E c \in 1..MaxCalls : SubprocessReply(c)
  \/ StdoutData(Len(pipe))
  \/ TimerFire

SpecReplies == Init /\ [][NextReplies]_vars

\* C20: the reply delivered to a call is the subprocess's answer to that
\* call's own request frame: every 200 response carries the answer to the
\* frame of the call it is given to, also when an earlier call with the
\* same identifier timed out and is answered late.
C20_ReplyAnswersOwnFrame ==
  \A i \in 1..Len(responses) :
     responses[i].status = 200 => responses[i].body = AnswerTo(responses[i].call)

====
